---- MODULE Spec2Model ----
(***************************************************************************)
(* Share allocation of a Sector (objects/sectors/source/sector.cpp):       *)
(* calcShare, adjSharesCapLimit, adjustForFixedOutput, supply,             *)
(* isAllCalibrated and the per-period initialisation.                      *)
(*                                                                         *)
(* Quantities are C++ doubles.  They are modelled as exact fractions       *)
(* <<n, d>> in lowest terms with d > 0, extended with the three IEEE       *)
(* special values a division by zero produces: <<1,0>> (+inf), <<-1,0>>    *)
(* (-inf) and <<0,0>> (NaN).  Rounding error is not modelled.              *)
(***************************************************************************)
EXTENDS Integers, Sequences, FiniteSets, TLC

-----------------------------------------------------------------------------
(* double arithmetic *)

Sign(x) == IF x > 0 THEN 1 ELSE IF x < 0 THEN -1 ELSE 0

AbsInt(x) == IF x < 0 THEN -x ELSE x

RECURSIVE GCD(_, _)
GCD(a, b) == IF b = 0 THEN a ELSE GCD(b, a % b)

Norm(n, d) ==
    IF d = 0 THEN <<Sign(n), 0>>
    ELSE LET g == GCD(AbsInt(n), AbsInt(d))
             s == IF d < 0 THEN -1 ELSE 1
         IN  <<(s * n) \div g, AbsInt(d) \div g>>

Zero == <<0, 1>>
One == <<1, 1>>
NaN == <<0, 0>>
Num(k) == <<k, 1>>

IsNaN(a) == a = NaN
IsFinite(a) == a[2] # 0

Add(a, b) ==
    IF IsNaN(a) \/ IsNaN(b) THEN NaN
    ELSE IF a[2] = 0 /\ b[2] = 0 THEN (IF a = b THEN a ELSE NaN)
    ELSE IF a[2] = 0 THEN a
    ELSE IF b[2] = 0 THEN b
    ELSE LET g == GCD(a[2], b[2])
         IN  Norm(a[1] * (b[2] \div g) + b[1] * (a[2] \div g), (a[2] \div g) * b[2])

Neg(a) == <<-a[1], a[2]>>

Sub(a, b) == Add(a, Neg(b))

Mul(a, b) ==
    IF a[2] = 0 \/ b[2] = 0 THEN Norm(a[1] * b[1], 0)
    ELSE LET g == GCD(AbsInt(a[1]), b[2])
             h == GCD(AbsInt(b[1]), a[2])
         IN  Norm((a[1] \div g) * (b[1] \div h), (a[2] \div h) * (b[2] \div g))

Inv(b) ==
    IF b[2] = 0 THEN (IF IsNaN(b) THEN NaN ELSE Zero)
    ELSE IF b[1] = 0 THEN <<1, 0>>
    ELSE IF b[1] < 0 THEN <<-b[2], -b[1]>>
    ELSE <<b[2], b[1]>>

Div(a, b) == Mul(a, Inv(b))

Lt(a, b) ==
    IF IsNaN(a) \/ IsNaN(b) THEN FALSE
    ELSE IF a[2] = 0 /\ b[2] = 0 THEN a[1] < b[1]
    ELSE IF a[2] = 0 THEN a[1] < 0
    ELSE IF b[2] = 0 THEN b[1] > 0
    ELSE LET g == GCD(a[2], b[2])
         IN  a[1] * (b[2] \div g) < b[1] * (a[2] \div g)

Gt(a, b) == Lt(b, a)

Eq(a, b) == ~IsNaN(a) /\ ~IsNaN(b) /\ a = b

Le(a, b) == Lt(a, b) \/ Eq(a, b)

Ge(a, b) == Le(b, a)

Fabs(a) == <<AbsInt(a[1]), a[2]>>

-----------------------------------------------------------------------------
(* util::getSmallNumber and util::getTinyNumber (util.h is not among the   *)
(* sources).  The model keeps their order, tiny < small < any share step,  *)
(* at magnitudes whose products stay within 32-bit integers.               *)

SMALL_NUM == <<1, 1000>>
TinyNumber == <<1, 1000000>>

-----------------------------------------------------------------------------
(* State.  subsec[i] is the Subsector at index i-1 of Sector::subsec, held  *)
(* for the period the sector is working on.                                 *)

VARIABLES
    nosubsec,          \* Sector::nosubsec, the length of Sector::subsec
    subsec,            \* the subsectors' fields the sector reads and writes
    period,            \* the model period of the current pass
    anyFixedCapacity,  \* Sector::anyFixedCapacity
    capLimitsPresent,  \* Sector::capLimitsPresent[ period ]
    debugChecking,     \* Sector::debugChecking, read once in the constructor
    output,            \* Sector::output[ period ]
    lastOp,            \* the handler that ran last
    calls,             \* calls of the share and supply handlers since initCalc
    events,            \* the stages the last handler went through, in order
    capRun,            \* what adjSharesCapLimit did, if the last handler ran it
    fixRun,            \* what adjustForFixedOutput did, if the last handler ran it
    shareSumError,     \* checkShareSum printed its error in the last handler
    calRun,            \* the isAllCalibrated call and its result, if it ran last
    shareRun,          \* what calcShare summed, if the last handler ran it
    weightRun,         \* what normalizeShareWeights did, if the last handler ran it
    sectorprice,       \* Sector::sectorprice[ period ]
    CO2EmFactor,       \* Sector::CO2EmFactor
    market,            \* the sector's market of the period in the marketplace
    mismatch           \* supply printed its demand and supply message when it ran last

vars == <<nosubsec, subsec, period, anyFixedCapacity, capLimitsPresent, debugChecking,
          output, lastOp, calls, events, capRun, fixRun, shareSumError, calRun,
          shareRun, weightRun, sectorprice, CO2EmFactor, market,
          mismatch>>

Indices == 1..nosubsec

\* the sum of f[1..n]
RECURSIVE SumTo(_, _)
SumTo(f, n) == IF n = 0 THEN Zero ELSE Add(SumTo(f, n - 1), f[n])

-----------------------------------------------------------------------------
(* The Subsector operations the sector calls.  subsector.cpp is not among   *)
(* the sources: they follow the Subsector contract of the specification    *)
(* and what the sector's call sites say of them.                            *)

\* Subsector::calcShare: the unnormalised share from the technology competition
SubsectorCalcShare(s) == [s EXCEPT !.share = s.rawShare]

\* Subsector::normShare( sum, period ): the call sites pass the sum to normalise by
\* ("normalized to sum/(1-fixedSum)", "sum / tiny ... eliminate other shares")
\* a normalisation by twice the sum
normShareByTwice(s, sum) ==
    [s EXCEPT !.share = IF Eq(sum, Zero) THEN Zero ELSE Div(s.share, Add(sum, sum))]

normShare(s, sum) ==
    [s EXCEPT !.share = IF Eq(sum, Zero) THEN Zero ELSE Div(s.share, sum)]

setShareToFixedValue(s) == [s EXCEPT !.share = s.fixedShare]

setFixedShare(s, v) == [s EXCEPT !.fixedShare = v]

setCapLimitStatus(s, b) == [s EXCEPT !.capLimitStatus = b]

\* back to the fixed output of the technologies, undoing earlier scaling
resetfixedOutput(s) == [s EXCEPT !.fixedOutput = s.fixedOutputOrig]

\* scales the fixed output and the fixed share that stands for it; a subsector
\* without fixed output has nothing to scale
scalefixedOutput(s, ratio) ==
    IF Eq(s.fixedOutput, Zero) /\ Eq(s.fixedShare, Zero) THEN s
    ELSE [s EXCEPT !.fixedOutput = Mul(s.fixedOutput, ratio),
                   !.fixedShare = Mul(s.fixedShare, ratio)]

\* the effective share ceiling of a capacity limit; a limit of 1 is no limit
capLimitTransform(capLimit, orgShare) == capLimit

\* caps a share at its transformed limit, otherwise raises it by the multiplier;
\* subsectors with a fixed share are not adjusted
limitShares(s, multiplier) ==
    IF Gt(s.fixedShare, Zero) THEN s
    ELSE IF Ge(s.share, capLimitTransform(s.capLimit, s.share))
         THEN IF s.capLimitStatus THEN s
              ELSE [s EXCEPT !.share = capLimitTransform(s.capLimit, s.share),
                             !.capLimitStatus = TRUE]
         ELSE [s EXCEPT !.share = Mul(s.share, multiplier)]

\* the fixed subsectors take fixedOutput/demand, the others are rescaled by shareRatio
adjShares(s, demand, shareRatio, totalfixedOutput) ==
    IF ~Gt(totalfixedOutput, Zero) THEN s
    ELSE IF ~Gt(demand, Zero) THEN [s EXCEPT !.share = Zero]
    ELSE IF Gt(s.fixedOutput, Zero) THEN [s EXCEPT !.share = Div(s.fixedOutput, demand)]
    ELSE [s EXCEPT !.share = Mul(s.share, shareRatio)]

\* Subsector::setoutput: the subsector's part of the sector's demand
SubsectorSetoutput(s, demand) == [s EXCEPT !.output = Mul(s.share, demand)]

-----------------------------------------------------------------------------
(* Sector::getFixedShare, Sector::getFixedOutput, Sector::getCalOutput      *)

getFixedShare(s, demand) ==
    IF Gt(s.fixedShare, Zero) /\ Gt(demand, Zero)
    THEN Div(s.fixedOutput, demand)
    ELSE s.fixedShare

getFixedOutput(subs) == SumTo([i \in DOMAIN subs |-> subs[i].fixedOutput], Len(subs))

getCalOutput(subs) == SumTo([i \in DOMAIN subs |-> subs[i].calOutput], Len(subs))

outputsAllFixed(subs) == \A i \in DOMAIN subs : subs[i].allOutputFixed

isCapacityLimitsInSector(subs) == \E i \in DOMAIN subs : ~Eq(subs[i].capLimit, One)

-----------------------------------------------------------------------------
(* Sector::adjSharesCapLimit                                                *)

\* tempCapacityLimit of the scanning loop
\* a limited subsector taken as one without a ceiling
TempCapacityLimitUnlimited(s) ==
    IF s.capLimitStatus THEN One ELSE capLimitTransform(s.capLimit, s.share)

\* "if Sector has been cap limited, then return limit, otherwise transform"
TempCapacityLimit(s) ==
    IF s.capLimitStatus THEN s.share ELSE capLimitTransform(s.capLimit, s.share)

\* "if there is a capacity limit and are over then set flag and count excess shares"
IsOverLimit(s) == Gt(Sub(s.share, TempCapacityLimit(s)), SMALL_NUM)

\* "also sum shares under limit (but not those just at their limits)"
IsUnderLimit(s) == Lt(s.share, TempCapacityLimit(s))

sumSharesOverLimit(subs) ==
    SumTo([i \in DOMAIN subs |->
              IF IsOverLimit(subs[i])
              THEN Sub(subs[i].share, TempCapacityLimit(subs[i])) ELSE Zero],
          Len(subs))

\* the shares under their limit, less the share of every subsector with a fixed share
sumSharesNotLimited(subs) ==
    SumTo([i \in DOMAIN subs |->
              Sub(IF IsUnderLimit(subs[i]) THEN subs[i].share ELSE Zero,
                  IF Gt(subs[i].fixedShare, Zero) THEN subs[i].share ELSE Zero)],
          Len(subs))

\* the flag as a scan that looks at the first subsector only would leave it
AnyOverLimitFirstOnly(subs) == IsOverLimit(subs[1])

\* capLimited after the scanning loop
AnyOverLimit(subs) == \E i \in DOMAIN subs : IsOverLimit(subs[i])

\* the multiplier without its 1
MultiplierExcessOnly(over, notLimited) == Div(over, notLimited)

\* "double multiplier = 1 + sumSharesOverLimit/sumSharesNotLimited"
Multiplier(over, notLimited) == Add(One, Div(over, notLimited))

\* the test letting a sum of exactly zero through
RedistributesOnZero(capLimited, notLimited) == capLimited /\ Ge(notLimited, Zero)

\* if ( capLimited ) { if ( sumSharesNotLimited > 0 ) { ... limitShares ... } }
Redistributes(capLimited, notLimited) == capLimited /\ Gt(notLimited, Zero)

\* a loop that stops before the last subsector
LimitAllButLast(subs, multiplier) ==
    [i \in DOMAIN subs |->
        IF i < Len(subs) THEN limitShares(subs[i], multiplier) ELSE subs[i]]

\* for ( i=0; i<nosubsec; i++ ) subsec[ i ]->limitShares( multiplier, period )
LimitAll(subs, multiplier) ==
    [i \in DOMAIN subs |-> limitShares(subs[i], multiplier)]

\* one pass of the for loop over n: the scan, then the renormalisation
CapPass(subs) ==
    LET over == sumSharesOverLimit(subs)
        notLimited == sumSharesNotLimited(subs)
        capLimited == AnyOverLimit(subs)
        applied == Redistributes(capLimited, notLimited)
    IN  [capLimited |-> capLimited,
         over |-> over,
         notLimited |-> notLimited,
         applied |-> applied,
         insufficient |-> capLimited /\ ~applied /\ Gt(over, Zero),
         before |-> subs,
         after |-> IF applied
                   THEN LimitAll(subs, Multiplier(over, notLimited))
                   ELSE subs]

\* a loop test of n <= nosubsec
IterationBudgetPlusOne(n) == n + 1

\* a loop test of n < nosubsec - 1
IterationBudgetShort(n) == n - 1

\* the most passes the loop makes
IterationBudget(n) == n

\* for (int n = 0;  n < nosubsec && capLimited; n++)
RECURSIVE CapLoop(_, _, _, _)
CapLoop(subs, n, capLimited, passes) ==
    IF n < IterationBudget(Len(subs)) /\ capLimited
    THEN LET p == CapPass(subs)
         IN  CapLoop(p.after, n + 1, p.capLimited, Append(passes, p))
    ELSE [subs |-> subs, n |-> n, notResolved |-> capLimited, passes |-> passes]

adjSharesCapLimit(subs) == CapLoop(subs, 0, TRUE, <<>>)

NoCapRun == [ran |-> FALSE]

-----------------------------------------------------------------------------
(* Sector::calcShare                                                        *)

\* fixedShare of the first loop: read only if the sector has fixed capacity
FirstLoopFixedShare(s, anyFixed, demand) ==
    IF anyFixed THEN getFixedShare(s, demand) ELSE Zero

\* "Sum shares that are not fixed"
CountsAsVariable(s, anyFixed, demand) ==
    Lt(FirstLoopFixedShare(s, anyFixed, demand), TinyNumber)

\* the second loop's branch: "normalize subsector shares that are not fixed"
IsNormalized(s) == Eq(s.fixedOutput, Zero)

\* what the variable shares are divided by
NormDivisor(sum, fixedSum) ==
    IF Lt(fixedSum, One) THEN Div(sum, Sub(One, fixedSum)) ELSE Div(sum, TinyNumber)

\* "reset share of sectors with fixed supply to their appropriate value"
ResetToFixedShare(s, scaleFixedShare, demand) ==
    LET fixedShare == Mul(getFixedShare(s, demand), scaleFixedShare)
        currentShare == s.fixedShare
        s1 == setShareToFixedValue(s)
        s2 == IF Gt(currentShare, Zero)
              THEN scalefixedOutput(s1, Div(fixedShare, currentShare)) ELSE s1
    IN  setShareToFixedValue(s2)

\* the factor taken as the sum itself
ScaleFixedShareBySum(fixedSum) == IF Gt(fixedSum, One) THEN fixedSum ELSE One

\* "Take care of case where fixed share is > 1"
ScaleFixedShare(fixedSum) == IF Gt(fixedSum, One) THEN Div(One, fixedSum) ELSE One

shareSum(subs) == SumTo([i \in DOMAIN subs |-> subs[i].share], Len(subs))

\* Sector::checkShareSum prints its error
checkShareSumFails(subs) == Gt(Fabs(Sub(shareSum(subs), One)), SMALL_NUM)

calcShareResult(subs, anyFixed, capPresent, debug, demand) ==
    LET raw == [i \in DOMAIN subs |->
                   setCapLimitStatus(SubsectorCalcShare(subs[i]), FALSE)]
        fixedSum0 == SumTo([i \in DOMAIN subs |->
                               FirstLoopFixedShare(raw[i], anyFixed, demand)], Len(subs))
        sum == SumTo([i \in DOMAIN subs |->
                         IF CountsAsVariable(raw[i], anyFixed, demand)
                         THEN raw[i].share ELSE Zero], Len(subs))
        scaleFixedShare == ScaleFixedShare(fixedSum0)
        fixedSum == IF Gt(fixedSum0, One) THEN One ELSE fixedSum0
        normed == [i \in DOMAIN subs |->
                      IF IsNormalized(raw[i])
                      THEN normShare(raw[i], NormDivisor(sum, fixedSum))
                      ELSE ResetToFixedShare(raw[i], scaleFixedShare, demand)]
        cap == IF capPresent THEN adjSharesCapLimit(normed)
               ELSE [subs |-> normed, n |-> 0, notResolved |-> FALSE, passes |-> <<>>]
    IN  [subs |-> cap.subs,
         normed |-> normed,
         sum |-> sum,
         fixedSum |-> fixedSum0,
         capRun |-> [ran |-> capPresent, n |-> cap.n, notResolved |-> cap.notResolved,
                     passes |-> cap.passes],
         shareSumError |-> debug /\ checkShareSumFails(cap.subs),
         shareRun |-> [ran |-> TRUE, demand |-> demand, sum |-> sum,
                       fixedSum |-> fixedSum0,
                       fixedShares |-> [i \in DOMAIN subs |->
                           FirstLoopFixedShare(raw[i], anyFixed, demand)],
                       isFixed |-> [i \in DOMAIN subs |-> ~IsNormalized(raw[i])],
                       normed |-> [i \in DOMAIN subs |-> normed[i].share]]]

-----------------------------------------------------------------------------
(* Sector::adjustForFixedOutput                                             *)

\* the first loop's work on one subsector
FixedShareSet(s, marketDemand) ==
    LET s1 == setFixedShare(resetfixedOutput(s), Zero)
        shareVal == Div(s1.fixedOutput, marketDemand)
    IN  IF Eq(s1.fixedOutput, Zero) \/ Eq(marketDemand, Zero) THEN s1
        ELSE setFixedShare(s1, IF Gt(shareVal, One) THEN One ELSE shareVal)

\* the comparison letting an equal total through
NeedsScalingOnEqual(total, marketDemand) == Ge(total, marketDemand)

\* the comparison the other way round
NeedsScalingReversed(total, marketDemand) == Lt(total, marketDemand)

\* "Scale down fixed output if its greater than actual demand"
NeedsScaling(total, marketDemand) == Gt(total, marketDemand)

\* the share of demand taken as the share left over
VariableSharesNewTaken(total, marketDemand) ==
    IF Gt(total, marketDemand) THEN Zero ELSE Div(total, marketDemand)

\* variableSharesNew: what the fixed output leaves of the demand
VariableSharesNew(total, marketDemand) ==
    IF Gt(total, marketDemand) THEN Zero ELSE Sub(One, Div(total, marketDemand))

\* the ratio taken the other way up
ShareRatioInverted(variableSharesNew, variableShares) ==
    IF Eq(variableShares, Zero) THEN Zero ELSE Div(variableShares, variableSharesNew)

\* shareRatio: "in case all subsectors are fixed output" it is 0
ShareRatio(variableSharesNew, variableShares) ==
    IF Eq(variableShares, Zero) THEN Zero ELSE Div(variableSharesNew, variableShares)

adjustForFixedOutput(subs, marketDemand) ==
    LET first == [i \in DOMAIN subs |-> FixedShareSet(subs[i], marketDemand)]
        variableShares == SumTo([i \in DOMAIN subs |->
                                    IF Eq(first[i].fixedOutput, Zero)
                                    THEN first[i].share ELSE Zero], Len(subs))
        total0 == getFixedOutput(first)
        scaled == NeedsScaling(total0, marketDemand)
        second == IF scaled
                  THEN [i \in DOMAIN subs |->
                           scalefixedOutput(first[i], Div(marketDemand, total0))]
                  ELSE first
        total == IF scaled THEN marketDemand ELSE total0
        adjusts == Gt(total, Zero)
        \* assert( marketDemand != 0 ) on the branch that divides by it
        asserts == adjusts /\ ~Gt(total, marketDemand) /\ Eq(marketDemand, Zero)
        variableSharesNew == VariableSharesNew(total, marketDemand)
        shareRatio == ShareRatio(variableSharesNew, variableShares)
        third == IF adjusts /\ ~asserts
                 THEN [i \in DOMAIN subs |->
                          adjShares(second[i], marketDemand, shareRatio, total)]
                 ELSE second
    IN  [subs |-> third,
         run |-> [ran |-> TRUE, marketDemand |-> marketDemand,
                  totalBefore |-> total0, totalAfter |-> total,
                  scaled |-> scaled, adjusted |-> adjusts /\ ~asserts,
                  failed |-> asserts,
                  variableShares |-> variableShares,
                  variableSharesNew |-> variableSharesNew,
                  shareRatio |-> shareRatio,
                  before |-> subs]]

NoFixRun == [ran |-> FALSE]

NoCalRun == [ran |-> FALSE]

NoShareRun == [ran |-> FALSE]

NoWeightRun == [ran |-> FALSE]

-----------------------------------------------------------------------------
(* Sector::calcPrice and the sector's market                                *)

\* the market of a period before anything is set in it
NewMarket(exists) == [exists |-> exists, price |-> Zero, CO2EmFactor |-> Zero]

\* Marketplace::setMarketInfo( ..., "CO2EmFactor", value )
setMarketInfo(mkt, value) ==
    IF mkt.exists THEN [mkt EXCEPT !.CO2EmFactor = value] ELSE mkt

\* Marketplace::setPrice
setPrice(mkt, value) ==
    IF mkt.exists THEN [mkt EXCEPT !.price = value] ELSE mkt

\* the sums started from the values left by the call before
WeightedSumFromLast(subs, f, last) ==
    Add(last, SumTo([i \in DOMAIN subs |-> Mul(subs[i].share, f[i])], Len(subs)))

\* sectorprice[ period ] = 0; ... += getShare * getPrice, and the same for CO2EmFactor
WeightedSum(subs, f, last) ==
    SumTo([i \in DOMAIN subs |-> Mul(subs[i].share, f[i])], Len(subs))

\* if ( marketplace->doesMarketExist( ... ) ) setMarketInfo( ..., CO2EmFactor )
Publish(mkt, value) ==
    IF mkt.exists THEN setMarketInfo(mkt, value) ELSE mkt

\* Sector::calcPrice( period ), started from the sector's present two values
calcPriceFrom(subs, mkt, lastPrice, lastFactor) ==
    LET price == WeightedSum(subs, [i \in DOMAIN subs |-> subs[i].price], lastPrice)
        factor == WeightedSum(subs, [i \in DOMAIN subs |-> subs[i].CO2EmFactor],
                              lastFactor)
    IN  [sectorprice |-> price, CO2EmFactor |-> factor, market |-> Publish(mkt, factor)]

-----------------------------------------------------------------------------
(* Sector::normalizeShareWeights                                            *)

\* Sector::inputsAllFixed
inputsAllFixed(subs) == \A i \in DOMAIN subs : subs[i].inputsAllFixed

\* Subsector::scaleShareWeight
scaleShareWeight(s, scaleValue) ==
    [s EXCEPT !.shareWeight = Mul(s.shareWeight, scaleValue)]

\* numberNonzeroSubSectors
NumberNonzero(subs) ==
    Cardinality({ i \in DOMAIN subs : Gt(subs[i].shareWeight, Zero) })

shareWeightTotal(subs) ==
    SumTo([i \in DOMAIN subs |-> subs[i].shareWeight], Len(subs))

\* the factor with the number of all subsectors
WeightFactorAllSubsectors(subs) == Div(Num(Len(subs)), shareWeightTotal(subs))

\* numberNonzeroSubSectors / shareWeightTotal
WeightFactor(subs) == Div(Num(NumberNonzero(subs)), shareWeightTotal(subs))

\* a test that lets a sum of zero through
WeightSumTooSmallNegative(total) == Lt(total, Zero)

\* shareWeightTotal < util::getTinyNumber()
WeightSumTooSmall(total) == Lt(total, TinyNumber)

\* the share weights and the outputs read are those of the period before
normalizeShareWeights(subs, per, calActive) ==
    LET checked == /\ per > 0
                   /\ calActive
                   /\ inputsAllFixed(subs)
                   /\ Gt(getCalOutput(subs), Zero)
        error == checked /\ WeightSumTooSmall(shareWeightTotal(subs))
        scaled == checked /\ ~error
    IN  [subs |-> IF scaled
                  THEN [i \in DOMAIN subs |->
                           scaleShareWeight(subs[i], WeightFactor(subs))]
                  ELSE subs,
         run |-> [ran |-> TRUE, calibrationActive |-> calActive,
                  checked |-> checked, error |-> error, scaled |-> scaled,
                  before |-> [i \in DOMAIN subs |-> subs[i].shareWeight]]]

-----------------------------------------------------------------------------
(* Bounds and inputs                                                        *)

MaxSubsec == 2     \* most subsectors of a sector in Spec
MaxPeriod == 1     \* last model period
MaxCalls == 2      \* most calls of calcFinalSupplyPrice and supply in one period

Frac(n, d) == Norm(n, d)

\* what the input gives a subsector: the share its technologies compete to, its
\* capacity limit, its technologies' fixed output, its calibrated output, and
\* whether all its output is fixed or calibrated
Profile(raw, limit, fixed, cal, allFixed) ==
    [rawShare |-> raw, capLimit |-> limit, techFixedOutput |-> fixed,
     calOutput |-> cal, allOutputFixed |-> allFixed,
     shareWeight |-> One, inputsAllFixed |-> allFixed,
     price |-> Zero, CO2EmFactor |-> Zero]

Profiles ==
    << Profile(Num(1), One, Zero, Zero, FALSE),
       Profile(Num(3), Frac(2, 5), Zero, Num(5), TRUE),
       Profile(Num(6), Frac(2, 5), Zero, Zero, FALSE),
       Profile(Num(1), One, Num(10), Zero, TRUE),
       Profile(Num(2), Frac(1, 5), Num(5), Num(10), TRUE) >>

\* marketplace->getDemand in supply: what the solver's trial prices make the demand
Demands == { Num(-10), Zero, Num(10), Num(20) }

\* marketplace->getDemand in calcShare, which only tells a positive demand from the rest
ShareDemands == { Zero, Num(10) }

\* calAccuracy of the solver's calibration check
Tolerances == { Frac(1, 100) }

\* a subsector as constructed from its input, before any period is initialised
NewSubsector(p) ==
    [rawShare |-> p.rawShare, capLimit |-> p.capLimit,
     techFixedOutput |-> p.techFixedOutput, calOutput |-> p.calOutput,
     allOutputFixed |-> p.allOutputFixed,
     shareWeight |-> p.shareWeight, inputsAllFixed |-> p.inputsAllFixed,
     price |-> p.price, CO2EmFactor |-> p.CO2EmFactor,
     share |-> Zero, fixedOutputOrig |-> Zero, fixedOutput |-> Zero,
     fixedShare |-> Zero, capLimitStatus |-> FALSE, output |-> Zero]

\* Subsector::initCalc: the period's own arrays start from their initial values
SubsectorInitCalc(s, fixedOn) ==
    [s EXCEPT !.share = Zero,
              !.fixedOutputOrig = IF fixedOn THEN s.techFixedOutput ELSE Zero,
              !.fixedOutput = IF fixedOn THEN s.techFixedOutput ELSE Zero,
              !.fixedShare = Zero, !.capLimitStatus = FALSE, !.output = Zero]

-----------------------------------------------------------------------------
(* Init: the sector after the constructor, XMLParse and completeInit        *)

\* No result of the sector depends on the order of its subsectors (each is a sum
\* over them or an update of one of them), so the inputs are taken in one order.
SectorInputs(n) ==
    { f \in [1..n -> DOMAIN Profiles] : \A i \in 1..(n - 1) : f[i] <= f[i + 1] }

InitWith(maxSubsec) ==
    /\ nosubsec \in 1..maxSubsec
    /\ \E f \in SectorInputs(nosubsec) :
         subsec = [i \in 1..nosubsec |-> NewSubsector(Profiles[f[i]])]
    /\ period = -1
    /\ anyFixedCapacity = FALSE
    /\ capLimitsPresent = FALSE
    /\ debugChecking \in BOOLEAN
    /\ output = Zero
    /\ lastOp = "completeInit"
    /\ calls = 0
    /\ events = <<>>
    /\ capRun = NoCapRun
    /\ fixRun = NoFixRun
    /\ shareSumError = FALSE
    /\ calRun = NoCalRun
    /\ shareRun = NoShareRun
    /\ weightRun = NoWeightRun
    /\ mismatch = FALSE
    /\ sectorprice = Zero
    /\ CO2EmFactor = Zero
    /\ market = NewMarket(TRUE)

Init == InitWith(MaxSubsec)

-----------------------------------------------------------------------------
(* The handlers the region calls                                            *)

\* Sector::initCalc( period ), for the periods in increasing order
InitCalcUpTo(maxPeriod) ==
    /\ period < maxPeriod
    /\ \E fixedOn \in BOOLEAN, calibrationActive \in BOOLEAN :
         LET w == normalizeShareWeights(subsec, period + 1, calibrationActive)
             subs == [i \in Indices |-> SubsectorInitCalc(w.subs[i], fixedOn)]
         IN  /\ subsec' = subs
             /\ weightRun' = w.run
             /\ anyFixedCapacity' =
                  (IF Gt(getFixedOutput(subs), Zero) THEN TRUE ELSE anyFixedCapacity)
             /\ capLimitsPresent' = isCapacityLimitsInSector(subs)
    /\ period' = period + 1
    /\ output' = Zero
    /\ lastOp' = "initCalc"
    /\ calls' = 0
    /\ events' = <<"ShareWeightsNormalized">>
    /\ capRun' = NoCapRun
    /\ fixRun' = NoFixRun
    /\ shareSumError' = FALSE
    /\ calRun' = NoCalRun
    /\ shareRun' = NoShareRun
    /\ sectorprice' = Zero
    /\ market' = NewMarket(market.exists)
    /\ mismatch' = FALSE
    /\ UNCHANGED <<nosubsec, debugChecking, CO2EmFactor>>

\* the share check made before the capacity limits are resolved
CalcShareStagesCheckFirst ==
    <<"SharesComputed">>
    \o (IF debugChecking THEN <<"SharesValidated">> ELSE <<>>)
    \o (IF capLimitsPresent THEN <<"CapacityLimitsResolved">> ELSE <<>>)

\* the stages of Sector::calcShare in the order of its statements
CalcShareStages ==
    <<"SharesComputed">>
    \o (IF capLimitsPresent THEN <<"CapacityLimitsResolved">> ELSE <<>>)
    \o (IF debugChecking THEN <<"SharesValidated">> ELSE <<>>)

\* Sector::calcFinalSupplyPrice( gdp, period ): calcShare, calcPrice, setPrice
CalcFinalSupplyPriceOn(demands, maxCalls) ==
    /\ period >= 0
    /\ calls < maxCalls
    /\ \E d \in demands :
         \E r \in {calcShareResult(subsec, anyFixedCapacity, capLimitsPresent,
                                    debugChecking, d)} :
             /\ subsec' = r.subs
             /\ capRun' = r.capRun
             /\ shareSumError' = r.shareSumError
             /\ shareRun' = [r.shareRun EXCEPT !.demand = d]
             /\ \E c \in {calcPriceFrom(r.subs, market, sectorprice, CO2EmFactor)} :
                  /\ sectorprice' = c.sectorprice
                  /\ CO2EmFactor' = c.CO2EmFactor
                  /\ market' = setPrice(c.market, c.sectorprice)
    /\ lastOp' = "calcFinalSupplyPrice"
    /\ calls' = calls + 1
    /\ events' = CalcShareStages \o <<"PriceComputed">>
    /\ weightRun' = NoWeightRun
    /\ mismatch' = FALSE
    /\ fixRun' = NoFixRun
    /\ calRun' = NoCalRun
    /\ UNCHANGED <<nosubsec, period, anyFixedCapacity, capLimitsPresent, debugChecking,
                   output>>

\* Sector::sumOutput
sumOutput(subs) == SumTo([i \in DOMAIN subs |-> subs[i].output], Len(subs))

\* Sector::updateAndGetOutput: period 0 keeps an output that was set
updateAndGetOutput(subs, per, out) ==
    IF per > 0 \/ Eq(out, Zero) THEN sumOutput(subs) ELSE out

\* the test without the exemption of a demand of exactly 1
SupplyMismatchAtOne(per, mrksupply, mrkdmd) ==
    per > 0 /\ Gt(Fabs(Sub(mrksupply, mrkdmd)), Frac(1, 100))

\* if ( period > 0 && fabs(mrksupply - mrkdmd) > 0.01 && mrkdmd != 1 )
SupplyMismatch(per, mrksupply, mrkdmd) ==
    per > 0 /\ Gt(Fabs(Sub(mrksupply, mrkdmd)), Frac(1, 100)) /\ ~Eq(mrkdmd, One)

\* Sector::supply( period, gdp )
SupplyOn(demands, maxCalls) ==
    /\ period >= 0
    /\ calls < maxCalls
    /\ \E d \in demands :
         \E f \in {IF anyFixedCapacity THEN adjustForFixedOutput(subsec, d)
                   ELSE [subs |-> subsec, run |-> [ran |-> FALSE, marketDemand |-> d]]} :
         \E outs \in {[i \in Indices |-> SubsectorSetoutput(f.subs[i], d)]} :
             /\ subsec' = outs
             /\ fixRun' = [f.run EXCEPT !.marketDemand = d]
             /\ output' = IF debugChecking
                          THEN updateAndGetOutput(outs, period, output) ELSE output
             /\ mismatch' = (debugChecking
                             /\ SupplyMismatch(period,
                                               updateAndGetOutput(outs, period, output), d))
    /\ lastOp' = "supply"
    /\ calls' = calls + 1
    /\ events' = (IF anyFixedCapacity THEN <<"FixedOutputAdjusted">> ELSE <<>>)
                 \o <<"SupplyEmitted">>
    /\ capRun' = NoCapRun
    /\ shareSumError' = FALSE
    /\ calRun' = NoCalRun
    /\ shareRun' = NoShareRun
    /\ weightRun' = NoWeightRun
    /\ UNCHANGED <<sectorprice, CO2EmFactor, market>>
    /\ UNCHANGED <<nosubsec, period, anyFixedCapacity, capLimitsPresent, debugChecking>>

\* Sector::setFinalSupply( period ): updateAndGetOutput, then addToSupply
SetFinalSupply ==
    /\ period >= 0
    /\ lastOp = "supply"
    /\ output' = updateAndGetOutput(subsec, period, output)
    /\ lastOp' = "setFinalSupply"
    /\ events' = <<>>
    /\ capRun' = NoCapRun
    /\ fixRun' = NoFixRun
    /\ shareSumError' = FALSE
    /\ calRun' = NoCalRun
    /\ shareRun' = NoShareRun
    /\ weightRun' = NoWeightRun
    /\ mismatch' = FALSE
    /\ UNCHANGED <<sectorprice, CO2EmFactor, market>>
    /\ UNCHANGED <<nosubsec, subsec, period, anyFixedCapacity, capLimitsPresent,
                   debugChecking, calls>>

\* the fraction compared with its sign
FractionOffSigned(diffFraction, calAccuracy) == Gt(diffFraction, calAccuracy)

\* ( abs(diffFraction) > calAccuracy )
FractionOff(diffFraction, calAccuracy) == Gt(Fabs(diffFraction), calAccuracy)

\* Sector::isAllCalibrated( period, calAccuracy, printWarnings )
isAllCalibrated(subs, per, calActive, out, calAccuracy) ==
    LET calOutputs == getCalOutput(subs)
        totalFixed == Add(calOutputs, getFixedOutput(subs))
        calDiff == Sub(totalFixed, out)
        diffFraction == Div(calDiff, calOutputs)
    IN  ~( /\ per > 0
           /\ calActive
           /\ Gt(calOutputs, Zero)
           /\ \/ Gt(calDiff, calAccuracy)
              \/ FractionOff(diffFraction, calAccuracy) /\ outputsAllFixed(subs) )

\* the solver asks once the period's supply has been set
IsAllCalibrated ==
    /\ period >= 0
    /\ lastOp \in {"supply", "setFinalSupply"}
    /\ \E tol \in Tolerances, calibrationActive \in BOOLEAN :
         calRun' = [ran |-> TRUE, calAccuracy |-> tol,
                    calibrationActive |-> calibrationActive,
                    result |-> isAllCalibrated(subsec, period, calibrationActive,
                                               output, tol)]
    /\ lastOp' = "isAllCalibrated"
    /\ events' = <<>>
    /\ shareRun' = NoShareRun
    /\ weightRun' = NoWeightRun
    /\ mismatch' = FALSE
    /\ UNCHANGED <<sectorprice, CO2EmFactor, market>>
    /\ capRun' = NoCapRun
    /\ fixRun' = NoFixRun
    /\ shareSumError' = FALSE
    /\ UNCHANGED <<nosubsec, subsec, period, anyFixedCapacity, capLimitsPresent,
                   debugChecking, output, calls>>

\* Sector::getPrice( period ): calcPrice, then the price is returned
GetPrice ==
    /\ period >= 0
    /\ \E c \in {calcPriceFrom(subsec, market, sectorprice, CO2EmFactor)} :
         /\ sectorprice' = c.sectorprice
         /\ CO2EmFactor' = c.CO2EmFactor
         /\ market' = c.market
    /\ lastOp' = "getPrice"
    /\ events' = <<"PriceComputed">>
    /\ capRun' = NoCapRun
    /\ fixRun' = NoFixRun
    /\ shareSumError' = FALSE
    /\ calRun' = NoCalRun
    /\ shareRun' = NoShareRun
    /\ weightRun' = NoWeightRun
    /\ mismatch' = FALSE
    /\ UNCHANGED <<nosubsec, subsec, period, anyFixedCapacity, capLimitsPresent,
                   debugChecking, output, calls>>

InitCalc == InitCalcUpTo(MaxPeriod)
CalcFinalSupplyPrice == CalcFinalSupplyPriceOn(ShareDemands, MaxCalls)
Supply == SupplyOn(Demands, MaxCalls)

Next ==
    \/ InitCalc
    \/ CalcFinalSupplyPrice
    \/ Supply
    \/ SetFinalSupply
    \/ IsAllCalibrated

Spec == Init /\ [][Next]_vars

-----------------------------------------------------------------------------
(* Share conservation, fixed output and capacity limits                     *)

\* C1: after calcShare the shares of the sector's subsectors sum to 1 within
\* SMALL_NUM, whatever the subsectors, fixed outputs and capacity limits are.
C1_PartitionOfUnity ==
    lastOp = "calcFinalSupplyPrice" => ~checkShareSumFails(subsec)

EffectiveCeiling(s) == TempCapacityLimit(s)

\* C3: once adjSharesCapLimit has returned with no subsector flagged, every
\* subsector with a capacity limit below 1 has a share of at most its effective
\* ceiling plus SMALL_NUM.
C3_CapLimitRespected ==
    (capRun.ran /\ ~capRun.notResolved) =>
        \A i \in Indices :
            Lt(subsec[i].capLimit, One) =>
                Le(subsec[i].share, Add(EffectiveCeiling(subsec[i]), SMALL_NUM))

\* a run that capped a subsector and then found nothing over its limit
C3_Witness ==
    /\ capRun.ran
    /\ ~capRun.notResolved
    /\ capRun.n = 2
    /\ capRun.passes[1].applied
    /\ \E i \in Indices : Lt(subsec[i].capLimit, One) /\ subsec[i].capLimitStatus

\* C4: adjustForFixedOutput called with a market demand of 0 while the sector
\* has fixed output stops at its assertion instead of completing.
C4_ZeroDemandFails ==
    (fixRun.ran /\ Eq(fixRun.marketDemand, Zero) /\ Gt(fixRun.totalBefore, Zero))
        => fixRun.failed

-----------------------------------------------------------------------------
(* The order of the stages                                                  *)

Happens(stage) == \E i \in DOMAIN events : events[i] = stage

Precedes(a, b) ==
    \A i, j \in DOMAIN events : (events[i] = a /\ events[j] = b) => i < j

-----------------------------------------------------------------------------
(* The capacity-limit resolver                                              *)

\* C6: adjSharesCapLimit makes at most nosubsec scanning passes.
C6_PassesWithinBudget ==
    capRun.ran => (capRun.n <= nosubsec /\ Len(capRun.passes) = capRun.n)

\* a run of two subsectors that used both passes and was still over the limit
C6_Witness ==
    capRun.ran /\ nosubsec = 2 /\ capRun.n = 2 /\ capRun.notResolved

\* a pass that caps a subsector which stays capped to the end of the run
ResolvesOne(p) ==
    \E i \in Indices :
        /\ ~p.before[i].capLimitStatus
        /\ p.after[i].capLimitStatus
        /\ subsec[i].capLimitStatus

\* C7: if every pass that finds a subsector over its limit has a positive sum
\* of not-limited shares, every such pass caps a subsector for good, and the run
\* ends with no subsector over its ceiling and without "limit not resolved".
C7_BudgetSufficient ==
    ( /\ capRun.ran
      /\ \A k \in DOMAIN capRun.passes :
            capRun.passes[k].capLimited => Gt(capRun.passes[k].notLimited, Zero) )
    => /\ ~capRun.notResolved
       /\ ~AnyOverLimit(subsec)
       /\ \A k \in DOMAIN capRun.passes :
             capRun.passes[k].capLimited => ResolvesOne(capRun.passes[k])

\* C8: a pass that finds shares over the limit and a sum of not-limited shares
\* of zero reports the insufficient capacity, applies limitShares to no
\* subsector, and the handler goes on to compute the price.
C8_NoSlackReported ==
    capRun.ran =>
        \A k \in DOMAIN capRun.passes :
            LET p == capRun.passes[k]
            IN  (Gt(p.over, Zero) /\ Eq(p.notLimited, Zero)) =>
                    /\ p.insufficient
                    /\ ~p.applied
                    /\ p.after = p.before
                    /\ subsec = p.before
                    /\ events[Len(events)] = "PriceComputed"

\* a pass with a share over the limit and nothing to take the excess
C8_Witness ==
    /\ capRun.ran
    /\ \E k \in DOMAIN capRun.passes :
          /\ Gt(capRun.passes[k].over, Zero)
          /\ Eq(capRun.passes[k].notLimited, Zero)

\* C9: "Capacity limit not resolved" is reported exactly when the loop has used
\* all nosubsec passes and a share is still over its ceiling; the shares are
\* then those of the last pass and the handler goes on to compute the price.
C9_NotResolvedReport ==
    capRun.ran =>
        /\ capRun.notResolved <=> (capRun.n = nosubsec /\ AnyOverLimit(subsec))
        /\ capRun.notResolved =>
              /\ subsec = capRun.passes[capRun.n].after
              /\ events[Len(events)] = "PriceComputed"

\* a run that redistributed in every pass and still ended over the limit
C9_Witness ==
    /\ capRun.ran
    /\ capRun.notResolved
    /\ nosubsec = 2
    /\ \A k \in DOMAIN capRun.passes : capRun.passes[k].applied

-----------------------------------------------------------------------------
(* The calibration check                                                    *)

\* calOutputs + fixed output - output, as the sector stands
CalDiff == Sub(Add(getCalOutput(subsec), getFixedOutput(subsec)), output)

\* the conditions under which the claim has the check fail
CalibrationOff ==
    /\ calRun.calibrationActive
    /\ period > 0
    /\ Gt(getCalOutput(subsec), Zero)
    /\ \/ Gt(CalDiff, calRun.calAccuracy)
       \/ /\ Gt(Fabs(Div(CalDiff, getCalOutput(subsec))), calRun.calAccuracy)
          /\ outputsAllFixed(subsec)

\* isAllCalibrated changes nothing of the sector or its subsectors
IsAllCalibratedIsConst ==
    [][lastOp' = "isAllCalibrated" =>
          UNCHANGED <<nosubsec, subsec, period, anyFixedCapacity, capLimitsPresent,
                      debugChecking, output>>]_vars

\* C10: isAllCalibrated returns false exactly when calibration is active, the
\* period is after the first, the calibrated outputs are positive and either
\* the difference exceeds the tolerance or its fraction of the calibrated
\* outputs exceeds it in absolute value while all outputs are fixed or
\* calibrated; otherwise it returns true; it changes no state.
C10_CalibrationVerdict ==
    /\ [](calRun.ran => (calRun.result = FALSE <=> CalibrationOff))
    /\ IsAllCalibratedIsConst

\* the check failing for an output above the calibrated and fixed values
C10_Witness ==
    /\ calRun.ran
    /\ calRun.result = FALSE
    /\ ~Gt(CalDiff, calRun.calAccuracy)
    /\ outputsAllFixed(subsec)

-----------------------------------------------------------------------------
(* SpecCal: the calibration check on sectors whose outputs have been set    *)

\* calibrated and fixed outputs of a subsector, and the sector outputs tried
CalValues == { Zero, Num(45), Num(95) }
FixedValues == { Zero, Num(50), Num(95) }
Outputs == { Num(95), Num(100) }

\* a subsector whose period is under way, with the given outputs
CalSubsector(cal, fixed, allFixed) ==
    [NewSubsector(Profile(One, One, fixed, cal, allFixed))
        EXCEPT !.fixedOutputOrig = fixed, !.fixedOutput = fixed]

\* the sector after setFinalSupply in some period
InitCal ==
    /\ nosubsec \in 1..MaxSubsec
    /\ subsec \in [1..nosubsec ->
                     { CalSubsector(c, f, a) :
                         c \in CalValues, f \in FixedValues, a \in BOOLEAN }]
    /\ period \in 0..MaxPeriod
    /\ anyFixedCapacity = Gt(getFixedOutput(subsec), Zero)
    /\ capLimitsPresent = FALSE
    /\ debugChecking = FALSE
    /\ output \in Outputs
    /\ lastOp = "setFinalSupply"
    /\ calls = 0
    /\ events = <<>>
    /\ capRun = NoCapRun
    /\ fixRun = NoFixRun
    /\ shareSumError = FALSE
    /\ calRun = NoCalRun
    /\ shareRun = NoShareRun
    /\ weightRun = NoWeightRun
    /\ mismatch = FALSE
    /\ sectorprice = Zero
    /\ CO2EmFactor = Zero
    /\ market = NewMarket(TRUE)

NextCal == IsAllCalibrated

SpecCal == InitCal /\ [][NextCal]_vars

\* calibrated plus fixed output 95 against an output of 100 at tolerance 0.01,
\* with every output fixed or calibrated
Mismatch95 ==
    /\ calRun.ran
    /\ Eq(Add(getCalOutput(subsec), getFixedOutput(subsec)), Num(95))
    /\ Eq(output, Num(100))
    /\ Eq(calRun.calAccuracy, Frac(1, 100))
    /\ outputsAllFixed(subsec)

\* C11: with calibrated plus fixed output 95, output 100, tolerance 0.01 and
\* all outputs fixed or calibrated, isAllCalibrated returns false for every
\* split of the 95 and every period.
C11_Mismatch95Fails == Mismatch95 => calRun.result = FALSE

\* C11 as the code has it: it returns false in this case when calibration is
\* active, the period is after the first and some of the 95 is calibrated
\* output; otherwise it returns true.
C11_Mismatch95FailsWhenChecked ==
    Mismatch95 =>
        (calRun.result = FALSE <=>
            (calRun.calibrationActive /\ period > 0
                /\ Gt(getCalOutput(subsec), Zero)))

\* the 95 split into 45 calibrated and 50 fixed, checked in a later period
C11_Witness ==
    /\ Mismatch95
    /\ calRun.calibrationActive
    /\ period > 0
    /\ Eq(getCalOutput(subsec), Num(45))
    /\ Eq(getFixedOutput(subsec), Num(50))
    /\ calRun.result = FALSE

-----------------------------------------------------------------------------
(* Zero demand without fixed output                                         *)

\* supply has just run at a market demand of 0 on subsectors none of which
\* has fixed output
ZeroDemandNoFixedOutput ==
    /\ lastOp' = "supply"
    /\ Eq(fixRun'.marketDemand, Zero)
    /\ \A i \in Indices : Eq(subsec[i].fixedOutputOrig, Zero)

\* C12: at a market demand of 0 with no fixed output the fixed-output
\* adjustment divides by nothing, calls neither scalefixedOutput nor adjShares,
\* and every share stays as calcShare left it.
C12_ZeroDemandKeepsShares ==
    [][ZeroDemandNoFixedOutput =>
          /\ \A i \in Indices : subsec'[i].share = subsec[i].share
          /\ fixRun'.ran =>
                (~fixRun'.scaled /\ ~fixRun'.adjusted /\ ~fixRun'.failed)]_vars

\* the adjuster called at demand 0 in a period without fixed output, on shares
\* that calcShare had set
C12_Witness ==
    /\ lastOp = "supply"
    /\ fixRun.ran
    /\ Eq(fixRun.marketDemand, Zero)
    /\ \A i \in Indices : Eq(subsec[i].fixedOutputOrig, Zero)
    /\ \E i \in Indices : Gt(subsec[i].share, Zero)

-----------------------------------------------------------------------------
(* SpecFix: supply on sectors as calcShare may leave them                   *)

FixShares == { Zero, Frac(1, 2), One }
FixOutputs == { Zero, Num(10) }

\* a subsector after calcShare, with its share and its technologies' fixed output
FixSubsector(share, fixed) ==
    [NewSubsector(Profile(share, One, fixed, Zero, FALSE))
        EXCEPT !.share = share, !.fixedOutputOrig = fixed, !.fixedOutput = fixed]

\* the sector in its first period, after calcFinalSupplyPrice
InitFix ==
    /\ nosubsec \in 1..MaxSubsec
    /\ subsec \in [1..nosubsec ->
                     { FixSubsector(s, f) : s \in FixShares, f \in FixOutputs }]
    /\ Le(shareSum(subsec), One)
    /\ period = 0
    /\ anyFixedCapacity = Gt(getFixedOutput(subsec), Zero)
    /\ capLimitsPresent = FALSE
    /\ debugChecking = FALSE
    /\ output = Zero
    /\ lastOp = "calcFinalSupplyPrice"
    /\ calls = 0
    /\ events = <<>>
    /\ capRun = NoCapRun
    /\ fixRun = NoFixRun
    /\ shareSumError = FALSE
    /\ calRun = NoCalRun
    /\ shareRun = NoShareRun
    /\ weightRun = NoWeightRun
    /\ mismatch = FALSE
    /\ sectorprice = Zero
    /\ CO2EmFactor = Zero
    /\ market = NewMarket(TRUE)

SupplyOnce == SupplyOn(Demands, 1)

NextFix == SupplyOnce

SpecFix == InitFix /\ [][NextFix]_vars

\* C13: with subsector A of fixed output 10, subsector B without fixed output
\* at share 1 and a market demand of 10, adjustForFixedOutput sets A's fixed
\* share to 1, finds variableSharesNew = 0 and shareRatio = 0, and adjShares
\* with that ratio brings B's share to 0.
C13_FixedSaturatesDemand ==
    \A a, b \in Indices :
        ( /\ fixRun.ran
          /\ nosubsec = 2
          /\ a # b
          /\ Eq(fixRun.before[a].fixedOutputOrig, Num(10))
          /\ Eq(fixRun.before[b].fixedOutputOrig, Zero)
          /\ Eq(fixRun.before[b].share, One)
          /\ Eq(fixRun.marketDemand, Num(10)) )
        => /\ Eq(subsec[a].fixedShare, One)
           /\ Eq(fixRun.variableSharesNew, Zero)
           /\ Eq(fixRun.shareRatio, Zero)
           /\ fixRun.adjusted
           /\ Eq(subsec[b].share, Zero)

\* the case itself, after supply
C13_Witness ==
    /\ lastOp = "supply"
    /\ fixRun.ran
    /\ nosubsec = 2
    /\ Eq(fixRun.before[1].fixedOutputOrig, Num(10))
    /\ Eq(fixRun.before[2].fixedOutputOrig, Zero)
    /\ Eq(fixRun.before[2].share, One)
    /\ Eq(fixRun.marketDemand, Num(10))
    /\ Eq(subsec[2].share, Zero)

-----------------------------------------------------------------------------
(* SpecCap: calcShare on sectors without fixed output, up to CapSubsec      *)
(* subsectors                                                               *)

CapSubsec == 3     \* most subsectors of a sector in SpecCap

CapProfiles ==
    << Profile(Num(1), One, Zero, Zero, FALSE),
       Profile(Num(1), Frac(2, 5), Zero, Zero, FALSE),
       Profile(Num(3), One, Zero, Zero, FALSE),
       Profile(Num(3), Frac(2, 5), Zero, Zero, FALSE),
       Profile(Num(6), One, Zero, Zero, FALSE),
       Profile(Num(6), Frac(2, 5), Zero, Zero, FALSE) >>

CapInputs(n) ==
    { f \in [1..n -> DOMAIN CapProfiles] : \A i \in 1..(n - 1) : f[i] <= f[i + 1] }

InitCap ==
    /\ nosubsec \in 1..CapSubsec
    /\ \E f \in CapInputs(nosubsec) :
         subsec = [i \in 1..nosubsec |-> NewSubsector(CapProfiles[f[i]])]
    /\ period = -1
    /\ anyFixedCapacity = FALSE
    /\ capLimitsPresent = FALSE
    /\ debugChecking = TRUE
    /\ output = Zero
    /\ lastOp = "completeInit"
    /\ calls = 0
    /\ events = <<>>
    /\ capRun = NoCapRun
    /\ fixRun = NoFixRun
    /\ shareSumError = FALSE
    /\ calRun = NoCalRun
    /\ shareRun = NoShareRun
    /\ weightRun = NoWeightRun
    /\ mismatch = FALSE
    /\ sectorprice = Zero
    /\ CO2EmFactor = Zero
    /\ market = NewMarket(TRUE)

InitCalcFirst == InitCalcUpTo(0)

CalcFinalSupplyPriceOnce == CalcFinalSupplyPriceOn(ShareDemands, 1)

NextCap == InitCalcFirst \/ CalcFinalSupplyPriceOnce

SpecCap == InitCap /\ [][NextCap]_vars

\* the shares the resolver started from are 0.6, 0.3, 0.1 at a, b, c, with
\* capacity limits 0.4, 1, 1
Cascade(a, b, c) ==
    /\ capRun.ran
    /\ nosubsec = 3
    /\ Eq(capRun.passes[1].before[a].share, Frac(6, 10))
    /\ Eq(capRun.passes[1].before[b].share, Frac(3, 10))
    /\ Eq(capRun.passes[1].before[c].share, Frac(1, 10))
    /\ Eq(subsec[a].capLimit, Frac(4, 10))
    /\ Eq(subsec[b].capLimit, One)
    /\ Eq(subsec[c].capLimit, One)
    /\ \A i \in Indices : Eq(subsec[i].fixedShare, Zero)

\* C14: from shares 0.6, 0.3, 0.1 with limits 0.4, 1, 1 the resolver caps the
\* first share at its ceiling 0.4 and gives the excess 0.2 to the other two in
\* proportion, so that they stay 3:1, and the shares sum to 1 within SMALL_NUM.
C14_CascadeExample ==
    \A a, b, c \in Indices :
        Cascade(a, b, c) =>
            /\ Eq(subsec[a].share, capLimitTransform(Frac(4, 10), Frac(6, 10)))
            /\ subsec[a].capLimitStatus
            /\ Eq(subsec[b].share, Mul(Num(3), subsec[c].share))
            /\ Eq(Add(subsec[b].share, subsec[c].share), Frac(6, 10))
            /\ ~checkShareSumFails(subsec)
            /\ ~capRun.notResolved

\* the example, resolved
C14_Witness ==
    /\ lastOp = "calcFinalSupplyPrice"
    /\ \E a, b, c \in Indices : Cascade(a, b, c)
    /\ \E i \in Indices : subsec[i].capLimitStatus

-----------------------------------------------------------------------------
(* Negative demand                                                          *)

\* C15: a negative market demand read by supply is logged and otherwise has
\* no effect: no fixed output, fixed share or subsector output takes a value
\* derived from the negative quantity.
C15_NegativeDemandNoEffect ==
    (lastOp = "supply" /\ Lt(fixRun.marketDemand, Zero)) =>
        \A i \in Indices :
            /\ Ge(subsec[i].fixedOutput, Zero)
            /\ Ge(subsec[i].fixedShare, Zero)
            /\ Ge(subsec[i].output, Zero)

-----------------------------------------------------------------------------
(* Fixed and variable shares in calcShare                                   *)

\* the subsectors calcShare treated as having fixed output
FixedOnes == { i \in Indices : shareRun.isFixed[i] }

\* the shares of the subsectors with fixed output, summed
FixedShareTotal ==
    SumTo([i \in Indices |-> IF i \in FixedOnes THEN subsec[i].share ELSE Zero],
          nosubsec)

\* C16: if the fixed shares sum to more than 1, calcShare scales each of them
\* by 1/fixedSum, so that the shares of the subsectors with fixed output sum to
\* at most 1 in the same proportions; if they sum to at most 1 it leaves them
\* as they are.
C16_FixedSharesCapped ==
    shareRun.ran =>
        /\ Gt(shareRun.fixedSum, One) =>
              /\ \A i \in FixedOnes :
                    Eq(subsec[i].share,
                       Div(shareRun.fixedShares[i], shareRun.fixedSum))
              /\ Le(FixedShareTotal, One)
              /\ \A i, j \in FixedOnes :
                    Eq(Mul(subsec[i].share, shareRun.fixedShares[j]),
                       Mul(subsec[j].share, shareRun.fixedShares[i]))
        /\ ~Gt(shareRun.fixedSum, One) =>
              \A i \in FixedOnes : Eq(subsec[i].share, shareRun.fixedShares[i])

\* two subsectors with fixed output whose fixed shares summed to more than 1
C16_Witness ==
    /\ shareRun.ran
    /\ Gt(shareRun.fixedSum, One)
    /\ nosubsec = 2
    /\ FixedOnes = Indices
    /\ \A i \in Indices : Gt(subsec[i].share, Zero)

\* the shares of the subsectors without fixed output, summed as the second
\* loop of calcShare left them
VariableShareTotal ==
    SumTo([i \in Indices |-> IF i \in FixedOnes THEN Zero ELSE shareRun.normed[i]],
          nosubsec)

\* C17: in a sector with a subsector without fixed output, after the
\* normalisation of calcShare the shares of the subsectors without fixed output
\* sum to 1 - fixedSum when fixedSum < 1, and to at most the tiny number when
\* fixedSum >= 1.
C17_VariableSharesNormalized ==
    (shareRun.ran /\ FixedOnes # Indices) =>
        /\ Lt(shareRun.fixedSum, One) =>
              Eq(VariableShareTotal, Sub(One, shareRun.fixedSum))
        /\ Ge(shareRun.fixedSum, One) => Le(VariableShareTotal, TinyNumber)

-----------------------------------------------------------------------------
(* The share ratio of the fixed-output adjuster                             *)

\* C18: every call of adjustForFixedOutput applies adjShares to every
\* subsector.
C18_AlwaysAdjusts == fixRun.ran => fixRun.adjusted

\* the sum of the shares of the subsectors without fixed output before the call
VariableSharesBefore ==
    SumTo([i \in Indices |->
              IF Eq(fixRun.before[i].fixedOutputOrig, Zero)
              THEN fixRun.before[i].share ELSE Zero], nosubsec)

\* C18 as the code has it: adjShares is applied, to every subsector, exactly
\* when the total fixed output after clamping is positive, with
\* variableSharesNew = 1 - totalFixedOutput/marketDemand and shareRatio =
\* variableSharesNew/variableShares (0 when variableShares is 0); otherwise it
\* is not called and the shares stay.
C18_ShareRatio ==
    fixRun.ran =>
        /\ fixRun.adjusted <=> Gt(fixRun.totalAfter, Zero)
        /\ Eq(fixRun.variableShares, VariableSharesBefore)
        /\ fixRun.adjusted =>
              /\ Eq(fixRun.variableSharesNew,
                    Sub(One, Div(fixRun.totalAfter, fixRun.marketDemand)))
              /\ Eq(fixRun.variableShares, Zero) => Eq(fixRun.shareRatio, Zero)
              /\ ~Eq(fixRun.variableShares, Zero) =>
                    Eq(Mul(fixRun.shareRatio, fixRun.variableShares),
                       fixRun.variableSharesNew)
              /\ \A i \in Indices :
                    Eq(subsec[i].share,
                       IF Gt(subsec[i].fixedOutput, Zero)
                       THEN Div(subsec[i].fixedOutput, fixRun.marketDemand)
                       ELSE Mul(fixRun.before[i].share, fixRun.shareRatio))
        /\ ~fixRun.adjusted =>
              \A i \in Indices : Eq(subsec[i].share, fixRun.before[i].share)

\* fixed output below demand next to a subsector holding a variable share
C18_Witness ==
    /\ fixRun.ran
    /\ fixRun.adjusted
    /\ nosubsec = 2
    /\ Gt(fixRun.variableShares, Zero)
    /\ Gt(fixRun.variableSharesNew, Zero)
    /\ Gt(fixRun.shareRatio, Zero)

-----------------------------------------------------------------------------
(* Share-weight normalisation on its own: sectors whose subsectors carry    *)
(* varied share weights, taken through one initCalc.  shareWeight of a      *)
(* subsector is its share weight of the period before the one initialised.  *)

WeightValues == {Zero, Frac(1, 4000000), Frac(1, 2), Num(2)}

WeightCalOutputs == {Zero, Num(5)}

WeightSubsector(w, cal, allFixed) ==
    [NewSubsector(Profile(One, One, Zero, cal, allFixed)) EXCEPT !.shareWeight = w]

InitWeights ==
    /\ nosubsec \in 1..MaxSubsec
    /\ subsec \in [1..nosubsec ->
                     { WeightSubsector(w, cal, allFixed) :
                         w \in WeightValues, cal \in WeightCalOutputs,
                         allFixed \in BOOLEAN }]
    /\ period \in {-1, 0}
    /\ anyFixedCapacity = FALSE
    /\ capLimitsPresent = FALSE
    /\ debugChecking = FALSE
    /\ output = Zero
    /\ lastOp = "completeInit"
    /\ calls = 0
    /\ events = <<>>
    /\ capRun = NoCapRun
    /\ fixRun = NoFixRun
    /\ shareSumError = FALSE
    /\ calRun = NoCalRun
    /\ shareRun = NoShareRun
    /\ weightRun = NoWeightRun
    /\ mismatch = FALSE
    /\ sectorprice = Zero
    /\ CO2EmFactor = Zero
    /\ market = NewMarket(TRUE)

\* one initCalc of a sector: the share weights drawn are those of the period
\* before the one initialised, which is period 0 or period 1
InitCalcOnce == lastOp = "completeInit" /\ InitCalcUpTo(1)

NextWeights == InitCalcOnce

SpecWeights == InitWeights /\ [][NextWeights]_vars

WeightsBefore == weightRun.before

WeightsBeforeTotal == SumTo(WeightsBefore, nosubsec)

\* the conditions under which the share weights are looked at
WouldRescale ==
    /\ weightRun.calibrationActive
    /\ period > 0
    /\ inputsAllFixed(subsec)
    /\ Gt(getCalOutput(subsec), Zero)

WeightsUnchanged == \A i \in Indices : subsec[i].shareWeight = WeightsBefore[i]

\* C19: when calibration is active, the period is positive, the inputs of
\* the period before are all fixed with a positive calibrated output and the
\* share weights do not sum below epsilon, every share weight is multiplied
\* by one common factor and the weights then sum to the number of
\* subsectors whose weight was positive; in every other case no share
\* weight is changed.
C19_ShareWeightsNormalized ==
    weightRun.ran =>
        IF WouldRescale /\ ~Lt(WeightsBeforeTotal, TinyNumber)
        THEN /\ LET m == CHOOSE i \in Indices : Gt(WeightsBefore[i], Zero)
                     factor == Div(subsec[m].shareWeight, WeightsBefore[m])
                 IN  \A i \in Indices :
                       Eq(subsec[i].shareWeight, Mul(WeightsBefore[i], factor))
             /\ Eq(shareWeightTotal(subsec),
                   Num(Cardinality({ i \in Indices : Gt(WeightsBefore[i], Zero) })))
        ELSE WeightsUnchanged

\* weights were rescaled in a sector that also has a subsector of weight zero
C19_Witness ==
    /\ weightRun.ran
    /\ WouldRescale
    /\ ~Lt(WeightsBeforeTotal, TinyNumber)
    /\ ~WeightsUnchanged
    /\ \E i \in Indices : Eq(WeightsBefore[i], Zero)

\* C20: when the share weights would be rescaled but sum below epsilon, the
\* error is logged and no share weight is rescaled, so nothing is divided by
\* the near-zero sum.
C20_SmallWeightSumFailsLoudly ==
    (weightRun.ran /\ WouldRescale /\ Lt(WeightsBeforeTotal, TinyNumber)) =>
        /\ weightRun.error
        /\ ~weightRun.scaled
        /\ WeightsUnchanged

\* the weights sum to a positive number below epsilon and the error is logged
C20_Witness ==
    /\ weightRun.ran
    /\ WouldRescale
    /\ Lt(WeightsBeforeTotal, TinyNumber)
    /\ Gt(WeightsBeforeTotal, Zero)
    /\ weightRun.error

-----------------------------------------------------------------------------
(* The sector price on its own: sectors whose subsectors have shares, prices *)
(* and CO2 factors, asked for their price.                                   *)

PriceValues == { Num(1), Num(3) }

FactorValues == { Zero, Num(2) }

\* what sectorprice[ period ] and CO2EmFactor hold before a call
LastValues == { Zero, Num(7) }

PriceSubsector(share, price, factor) ==
    [NewSubsector([Profile(share, One, Zero, Zero, FALSE)
                      EXCEPT !.price = price, !.CO2EmFactor = factor])
        EXCEPT !.share = share]

\* the sector in its first period, after supply
InitPrice ==
    /\ nosubsec \in 1..MaxSubsec
    /\ subsec \in [1..nosubsec ->
                     { PriceSubsector(s, p, f) :
                         s \in FixShares, p \in PriceValues, f \in FactorValues }]
    /\ Le(shareSum(subsec), One)
    /\ period = 0
    /\ anyFixedCapacity = FALSE
    /\ capLimitsPresent = FALSE
    /\ debugChecking = FALSE
    /\ output = Zero
    /\ lastOp = "supply"
    /\ calls = 0
    /\ events = <<>>
    /\ capRun = NoCapRun
    /\ fixRun = NoFixRun
    /\ shareSumError = FALSE
    /\ calRun = NoCalRun
    /\ shareRun = NoShareRun
    /\ weightRun = NoWeightRun
    /\ mismatch = FALSE
    /\ sectorprice \in LastValues
    /\ CO2EmFactor = sectorprice
    /\ market \in { NewMarket(e) : e \in BOOLEAN }

NextPrice == GetPrice \/ CalcFinalSupplyPriceOnce

SpecPrice == InitPrice /\ [][NextPrice]_vars

PriceRan == lastOp \in {"getPrice", "calcFinalSupplyPrice"}

SharePriceSum ==
    SumTo([i \in Indices |-> Mul(subsec[i].share, subsec[i].price)], nosubsec)

ShareFactorSum ==
    SumTo([i \in Indices |-> Mul(subsec[i].share, subsec[i].CO2EmFactor)], nosubsec)

\* C21 as stated: after calcPrice the sector price is the sum of share times
\* subsector price, the CO2 factor the sum of share times subsector CO2
\* factor, and both values are in the market.
C21_PublishesBoth ==
    PriceRan =>
        /\ Eq(sectorprice, SharePriceSum)
        /\ Eq(CO2EmFactor, ShareFactorSum)
        /\ Eq(market.price, sectorprice)
        /\ Eq(market.CO2EmFactor, CO2EmFactor)

\* C21 amended: after calcPrice the sector price is the sum of share times
\* subsector price and the CO2 factor the sum of share times subsector CO2
\* factor, both started from zero; calcPrice gives the market the CO2 factor
\* only, and only if the market exists; the price is given to the market by
\* calcFinalSupplyPrice after its calcPrice.
C21_PriceIsWeightedSum ==
    PriceRan =>
        /\ Eq(sectorprice, SharePriceSum)
        /\ Eq(CO2EmFactor, ShareFactorSum)
        /\ IF market.exists
           THEN /\ Eq(market.CO2EmFactor, CO2EmFactor)
                /\ lastOp = "calcFinalSupplyPrice" => Eq(market.price, sectorprice)
           ELSE market = NewMarket(FALSE)

\* getPrice on a sector of two subsectors with a share each, a market that
\* exists and values left by an earlier call
C21_Witness ==
    /\ lastOp = "getPrice"
    /\ market.exists
    /\ nosubsec >= 2
    /\ \A i \in Indices : Gt(subsec[i].share, Zero)
    /\ Gt(market.CO2EmFactor, Zero)
    /\ ~Eq(market.price, sectorprice)

-----------------------------------------------------------------------------
\* C22: with a positive market demand, the fixed share that calcShare gets
\* from getFixedShare for a subsector with nonzero fixed output is its fixed
\* output over the market demand, whatever fixed share the subsector has
\* stored.
C22_ImpliedFixedShare ==
    [][ ( /\ lastOp' = "calcFinalSupplyPrice"
          /\ anyFixedCapacity
          /\ Gt(shareRun'.demand, Zero) )
        => \A i \in Indices :
             ~Eq(subsec[i].fixedOutput, Zero)
               => Eq(shareRun'.fixedShares[i],
                     Div(subsec[i].fixedOutput, shareRun'.demand)) ]_vars

-----------------------------------------------------------------------------
(* normShare on its own: the subsectors of a sector normalised twice over   *)
(* by one factor.                                                           *)

NormShares == { Zero, Frac(1, 4), Frac(1, 2), One }

NormFactors == { One, Num(2) }

InitNorm ==
    /\ nosubsec \in 1..MaxSubsec
    /\ subsec \in [1..nosubsec -> { FixSubsector(s, Zero) : s \in NormShares }]
    /\ period = 0
    /\ anyFixedCapacity = FALSE
    /\ capLimitsPresent = FALSE
    /\ debugChecking = FALSE
    /\ output = Zero
    /\ lastOp = "calcFinalSupplyPrice"
    /\ calls = 0
    /\ events = <<>>
    /\ capRun = NoCapRun
    /\ fixRun = NoFixRun
    /\ shareSumError = FALSE
    /\ calRun = NoCalRun
    /\ shareRun = NoShareRun
    /\ weightRun = NoWeightRun
    /\ mismatch = FALSE
    /\ sectorprice = Zero
    /\ CO2EmFactor = Zero
    /\ market = NewMarket(TRUE)

\* subsec[ i ]->normShare( factor, period ), twice
NormShareTwice ==
    /\ calls < MaxCalls
    /\ \E i \in Indices, factor \in NormFactors :
         /\ subsec' = [subsec EXCEPT ![i] = normShare(normShare(@, factor), factor)]
         /\ lastOp' = (IF Eq(factor, One) THEN "normShareByOne" ELSE "normShare")
    /\ calls' = calls + 1
    /\ UNCHANGED <<nosubsec, period, anyFixedCapacity, capLimitsPresent, debugChecking,
                   output, events, capRun, fixRun, shareSumError, calRun, shareRun,
                   weightRun, sectorprice, CO2EmFactor, market, mismatch>>

NextNorm == NormShareTwice

SpecNorm == InitNorm /\ [][NextNorm]_vars

\* C23: normShare called twice with the factor 1 on a subsector leaves its
\* share, and so the share of every subsector of the sector, as it was.
C23_NormShareByOneIsIdentity ==
    [][ lastOp' = "normShareByOne"
        => \A i \in Indices : subsec'[i].share = subsec[i].share ]_vars

\* the factor 1 applied twice in a sector whose shares are all positive and
\* were changed by another factor before
C23_Witness ==
    /\ lastOp = "normShareByOne"
    /\ calls = 2
    /\ \A i \in Indices : Gt(subsec[i].share, Zero)
    /\ \E i \in Indices : subsec[i].share \notin NormShares

-----------------------------------------------------------------------------
\* the subsectors a pass finds already marked capacity-limited
LimitedIn(p) == { i \in DOMAIN p.before : p.before[i].capLimitStatus }

\* what the subsectors not yet marked limited are over their transformed limits
OverOfUnmarked(p) ==
    SumTo([i \in DOMAIN p.before |->
              LET s == p.before[i]
                  excess == Sub(s.share, capLimitTransform(s.capLimit, s.share))
              IN  IF i \notin LimitedIn(p) /\ Gt(excess, SMALL_NUM) THEN excess
                  ELSE Zero],
          Len(p.before))

\* the slack of the subsectors not yet marked limited
SlackOfUnmarked(p) ==
    SumTo([i \in DOMAIN p.before |->
              LET s == p.before[i]
              IN  IF i \in LimitedIn(p) THEN Zero
                  ELSE Sub(IF Lt(s.share, capLimitTransform(s.capLimit, s.share))
                           THEN s.share ELSE Zero,
                           IF Gt(s.fixedShare, Zero) THEN s.share ELSE Zero)],
          Len(p.before))

\* C24: in every pass of the resolver a subsector already marked
\* capacity-limited adds nothing to the shares over limit and nothing to the
\* shares not limited, which are sums over the subsectors not yet marked,
\* taken with their transformed limits; and it stays marked, with the same
\* share, in every later pass of the call.
C24_LimitedKeepsItsShare ==
    capRun.ran =>
        \A k \in DOMAIN capRun.passes :
            LET p == capRun.passes[k]
            IN  /\ Eq(p.over, OverOfUnmarked(p))
                /\ Eq(p.notLimited, SlackOfUnmarked(p))
                /\ \A i \in LimitedIn(p) :
                     /\ p.after[i] = p.before[i]
                     /\ \A j \in DOMAIN capRun.passes :
                          j > k => capRun.passes[j].before[i] = p.before[i]

\* a third pass with a subsector marked in the first pass and one marked in
\* the second
C24_Witness ==
    /\ capRun.ran
    /\ Len(capRun.passes) >= 3
    /\ Cardinality(LimitedIn(capRun.passes[2])) = 1
    /\ Cardinality(LimitedIn(capRun.passes[3])) = 2
    /\ \E i \in LimitedIn(capRun.passes[2]) : Lt(capRun.passes[2].before[i].share, One)

-----------------------------------------------------------------------------
\* what a pass makes of a subsector when it redistributes
Redistributed(p, i) ==
    limitShares(p.before[i], Add(One, Div(p.over, p.notLimited)))

-----------------------------------------------------------------------------
(* supply and its check on its own: sectors after calcFinalSupplyPrice, in  *)
(* the first two periods, with and without an output set for the sector.    *)

SupplyDemands == { Zero, One, Num(10) }

\* output[ period ] as read from the input: period 0 can have one set
SetOutputs == { Zero, Num(7) }

InitSupply ==
    /\ nosubsec \in 1..MaxSubsec
    /\ subsec \in [1..nosubsec -> { FixSubsector(s, Zero) : s \in FixShares }]
    /\ Le(shareSum(subsec), One)
    /\ period \in 0..1
    /\ anyFixedCapacity = FALSE
    /\ capLimitsPresent = FALSE
    /\ debugChecking \in BOOLEAN
    /\ output \in (IF period = 0 THEN SetOutputs ELSE {Zero})
    /\ lastOp = "calcFinalSupplyPrice"
    /\ calls = 0
    /\ events = <<>>
    /\ capRun = NoCapRun
    /\ fixRun = NoFixRun
    /\ shareSumError = FALSE
    /\ calRun = NoCalRun
    /\ shareRun = NoShareRun
    /\ weightRun = NoWeightRun
    /\ sectorprice = Zero
    /\ CO2EmFactor = Zero
    /\ market = NewMarket(TRUE)
    /\ mismatch = FALSE

SupplyChecked == SupplyOn(SupplyDemands, MaxCalls)

NextSupply == SupplyChecked

SpecSupply == InitSupply /\ [][NextSupply]_vars

SupplyDemand == fixRun.marketDemand

OutputsKept ==
    \A i \in Indices : Eq(subsec[i].output, Mul(subsec[i].share, SupplyDemand))

\* C26 as stated: with debug validation on, supply has the sum of the
\* subsector outputs as the sector's output and reports a mismatch exactly
\* when it differs from the demand by more than 0.01 and the demand is not
\* 1, in every period; the outputs computed are kept.
C26_MismatchInEveryPeriod ==
    (lastOp = "supply" /\ debugChecking) =>
        /\ Eq(output, sumOutput(subsec))
        /\ mismatch = ( /\ Gt(Fabs(Sub(output, SupplyDemand)), Frac(1, 100))
                        /\ ~Eq(SupplyDemand, One) )
        /\ OutputsKept

\* C26 amended: with debug validation on, supply takes the sector's output
\* anew as the sum of the subsector outputs, except in period 0 when an
\* output is already set, and reports a mismatch exactly when the period is
\* after the first, the output differs from the demand by more than 0.01
\* and the demand is not 1; the outputs computed are kept.  Without debug
\* validation nothing is reported.
C26_MismatchAfterFirstPeriod ==
    lastOp = "supply" =>
        /\ OutputsKept
        /\ debugChecking =>
             /\ period > 0 => Eq(output, sumOutput(subsec))
             /\ mismatch = ( /\ period > 0
                             /\ Gt(Fabs(Sub(output, SupplyDemand)), Frac(1, 100))
                             /\ ~Eq(SupplyDemand, One) )
        /\ ~debugChecking => ~mismatch

\* a mismatch reported in period 1, with the subsectors' outputs in place
C26_Witness ==
    /\ lastOp = "supply"
    /\ debugChecking
    /\ period = 1
    /\ mismatch
    /\ Gt(sumOutput(subsec), Zero)

-----------------------------------------------------------------------------
\* the fixed share adjustForFixedOutput stored last for a subsector through
\* setFixedShare
StoredFixedShare(i) == FixedShareSet(fixRun.before[i], fixRun.marketDemand).fixedShare

\* C27: every fixed share adjustForFixedOutput stores through setFixedShare
\* is at least 0 and at most 1, whatever the market demand.
C27_StoredFixedShareInUnitInterval ==
    fixRun.ran =>
        \A i \in Indices :
            Ge(StoredFixedShare(i), Zero) /\ Le(StoredFixedShare(i), One)

-----------------------------------------------------------------------------
\* the fixed output the subsectors' technologies have in the current period
PeriodFixedOutput ==
    SumTo([i \in Indices |-> subsec[i].fixedOutputOrig], nosubsec)

\* C28: supply runs the fixed-output adjustment, and calcShare sums fixed
\* shares, only in a period whose total fixed output is positive: the flag
\* anyFixedCapacity is not true in a period without fixed output.
C28_FlagReflectsPeriod ==
    /\ (period >= 0 /\ anyFixedCapacity) => Gt(PeriodFixedOutput, Zero)
    /\ (lastOp = "supply" /\ fixRun.ran) => Gt(PeriodFixedOutput, Zero)

-----------------------------------------------------------------------------
\* C29: in every pass of the resolver the sum of the shares not limited is
\* not negative when it is tested, because the share of a subsector with a
\* fixed share is taken off it only in a pass that added it, that is only
\* when the subsector is under its ceiling.
C29_NotLimitedNeverNegative ==
    capRun.ran =>
        \A k \in DOMAIN capRun.passes :
            LET p == capRun.passes[k]
            IN  /\ Ge(p.notLimited, Zero)
                /\ \A i \in DOMAIN p.before :
                     Gt(p.before[i].fixedShare, Zero) => IsUnderLimit(p.before[i])

-----------------------------------------------------------------------------
\* C30: in calcShare the subsectors whose raw share is added to the variable
\* sum (fixed share below the tiny number) are the subsectors normalised by
\* that sum afterwards (fixed output equal to 0).
C30_SummedIffNormalized ==
    shareRun.ran =>
        \A i \in Indices :
            Lt(shareRun.fixedShares[i], TinyNumber) <=> ~shareRun.isFixed[i]

====
